---- MODULE Spec2Model ----
(***************************************************************************)
(* A model of the rlox scanner (src/src/rlox/scanner.rs).                  *)
(*                                                                         *)
(* A character is a one-character string; the source text is the sequence  *)
(* `chars` of its characters.  Scanner::chars pairs every character with   *)
(* its byte offset in `code` (char_indices): byte_offset gives that        *)
(* offset and code_slice the characters of a slice of `code` by byte       *)
(* offsets.  The character classes are those of Rust's char: is_digit(10)  *)
(* holds of the ASCII digits only, is_alphabetic and is_alphanumeric of    *)
(* the Unicode letters and numbers too.  Of the characters outside ASCII   *)
(* the model knows the ones listed in AlphabeticNonAscii, NumericNonAscii  *)
(* and OtherNonAscii.                                                      *)
(* Indices (start, current) are 0-based as in the source: the character    *)
(* at index i is chars[i + 1].                                             *)
(*                                                                         *)
(* One action is one iteration of the loop of scan_tokens (start :=        *)
(* current followed by the whole of scan_token), one action per arm of the *)
(* match in scan_token.  An out-of-range index panics and aborts the scan: *)
(* pc = "panicked" and scan_tokens returns nothing.                        *)
(*                                                                         *)
(* `iterations` counts the iterations of the loop of scan_tokens started   *)
(* by the current call.  `buffer` and `read` belong to run_prompt          *)
(* (src/src/main.rs): the String `line` it hands to read_line, and the     *)
(* text the last read_line call read.                                      *)
(***************************************************************************)
EXTENDS Integers, Sequences, FiniteSets, TLC

VARIABLES chars, had_errors, line, start, current, tokens, diags, pc,
          iterations, buffer, read

vars == <<chars, had_errors, line, start, current, tokens, diags, pc,
          iterations, buffer, read>>

----------------------------------------------------------------------------
(* Bounds of the checked inputs *)

MaxLen == 4

Alphabet == {"(", "!", "=", "/", " ", "\n", "\"", "1", ".", "o", "r", "@"}

RECURSIVE SeqsUpTo(_)
SeqsUpTo(n) ==
    IF n = 0 THEN {<<>>}
    ELSE LET shorter == SeqsUpTo(n - 1)
         IN  shorter \cup {Append(s, c) : s \in {t \in shorter : Len(t) = n - 1},
                                          c \in Alphabet}

CornerInputs ==
    { <<"f", "o", "r", "e", "v", "e", "r">>,
      <<"f", "o", "r", "e", "v", "e", "r", " ">>,
      <<"P", "r", "i", "n", "t", ";">>,
      <<"p", "r", "i", "n", "t", ";">>,
      <<"/", "/", " ", "c", "\n", "1", "\n">>,
      <<"\"", "a", "\n", "b", "\"">>,
      <<"\"", "a", "\n", "\n", "b">>,
      <<"3", ".">>,
      <<"1", "0", ".", "5", "0", "\n">>,
      <<"<", "=", ">", "=", "<", ">">>,
      <<" ", "\t", "\r", "\n">>,
      <<"{", "}", ",", "-", "+", "*", ")">>,
      <<"v", "a", "r", " ", "x", "2", "=", "1", ";">>,
      <<"é", " ">>,
      <<"a", "é", " ">>,
      <<"a", "²", "b", " ">>,
      <<"²", " ">>,
      <<"1", "½", " ">>,
      <<"€", "λ", "µ", "1", ";">>,
      <<"ª", "\n", "\"", "é", "\"">>,
      <<"é">> }

Inputs == SeqsUpTo(MaxLen) \cup CornerInputs

\* the lines typed at the prompt, and how many of them are read
MaxPromptLines == 3

PromptLines ==
    { <<"1", " ", "o", "\n">>,
      <<"(", "!", "/", "\n">>,
      <<"@", "\"", "\n">>,
      <<"é", "²", " ", "\n">> }

----------------------------------------------------------------------------
(* Character classes *)

NUL == "<NUL>"

Digits == {"0", "1", "2", "3", "4", "5", "6", "7", "8", "9"}

DigitSeq == <<"0", "1", "2", "3", "4", "5", "6", "7", "8", "9">>

LowerCase == {"a", "b", "c", "d", "e", "f", "g", "h", "i", "j", "k", "l", "m",
              "n", "o", "p", "q", "r", "s", "t", "u", "v", "w", "x", "y", "z"}

UpperCase == {"A", "B", "C", "D", "E", "F", "G", "H", "I", "J", "K", "L", "M",
              "N", "O", "P", "Q", "R", "S", "T", "U", "V", "W", "X", "Y", "Z"}

\* letters outside ASCII (Unicode property Alphabetic)
AlphabeticNonAscii == {"é", "ª", "µ", "λ"}

\* numbers outside ASCII (Unicode categories Nd, Nl, No), none alphabetic
NumericNonAscii == {"²", "½"}

\* characters outside ASCII that are neither letters nor numbers
OtherNonAscii == {"€"}

\* char::is_digit(10): the ASCII digits only
is_digit(c) == c \in Digits

\* char::is_alphabetic
is_alphabetic(c) == c \in LowerCase \cup UpperCase \cup AlphabeticNonAscii

\* char::is_numeric
is_numeric(c) == c \in Digits \cup NumericNonAscii

\* char::is_alphanumeric: is_alphabetic() || is_numeric()
is_alphanumeric(c) == is_alphabetic(c) \/ is_numeric(c)

\* char::len_utf8
len_utf8(c) ==
    IF c \in {"é", "ª", "µ", "λ", "²", "½"} THEN 2
    ELSE IF c \in {"€"} THEN 3
    ELSE 1

----------------------------------------------------------------------------
(* Tokens *)

Token(type, payload) == [type |-> type, payload |-> payload]

Plain(type) == Token(type, <<>>)

EOF == Plain("EOF")

Identifier(text) == Token("Identifier", text)

StringValue(text) == Token("StringValue", text)

NumberValue(val) == Token("NumberValue", val)

None == <<>>

Some(t) == <<t>>

SingleCharTokens ==
    [c \in {"(", ")", "{", "}", ",", ".", "-", "+", ";", "*"} |->
        CASE c = "(" -> Plain("LeftParen")
          [] c = ")" -> Plain("RightParen")
          [] c = "{" -> Plain("LeftBrace")
          [] c = "}" -> Plain("RightBrace")
          [] c = "," -> Plain("Comma")
          [] c = "." -> Plain("Dot")
          [] c = "-" -> Plain("Minus")
          [] c = "+" -> Plain("Plus")
          [] c = ";" -> Plain("Semicolon")
          [] c = "*" -> Plain("Star")]

OneCharTokens ==
    [c \in {"!", "=", "<", ">"} |->
        CASE c = "!" -> Plain("Bang")
          [] c = "=" -> Plain("Equal")
          [] c = "<" -> Plain("Less")
          [] c = ">" -> Plain("Greater")]

TwoCharTokens ==
    [c \in {"!", "=", "<", ">"} |->
        CASE c = "!" -> Plain("BangEqual")
          [] c = "=" -> Plain("EqualEqual")
          [] c = "<" -> Plain("LessEqual")
          [] c = ">" -> Plain("GreaterEqual")]

\* the whitespace arm matching the space only
Whitespace_space_only == {" "}

Whitespace == {" ", "\r", "\t"}

reserved_words ==
    [text \in { <<"a", "n", "d">>, <<"o", "r">>, <<"i", "f">>,
                <<"e", "l", "s", "e">>, <<"t", "r", "u", "e">>,
                <<"f", "a", "l", "s", "e">>, <<"v", "a", "r">>,
                <<"f", "u", "n">>, <<"r", "e", "t", "u", "r", "n">>,
                <<"c", "l", "a", "s", "s">>, <<"t", "h", "i", "s">>,
                <<"s", "u", "p", "e", "r">>, <<"f", "o", "r">>,
                <<"w", "h", "i", "l", "e">>, <<"p", "r", "i", "n", "t">>,
                <<"n", "i", "l">> } |->
        CASE text = <<"a", "n", "d">> -> Plain("And")
          [] text = <<"o", "r">> -> Plain("Or")
          [] text = <<"i", "f">> -> Plain("If")
          [] text = <<"e", "l", "s", "e">> -> Plain("Else")
          [] text = <<"t", "r", "u", "e">> -> Plain("True")
          [] text = <<"f", "a", "l", "s", "e">> -> Plain("False")
          [] text = <<"v", "a", "r">> -> Plain("Var")
          [] text = <<"f", "u", "n">> -> Plain("Fun")
          [] text = <<"r", "e", "t", "u", "r", "n">> -> Plain("Return")
          [] text = <<"c", "l", "a", "s", "s">> -> Plain("Class")
          [] text = <<"t", "h", "i", "s">> -> Plain("This")
          [] text = <<"s", "u", "p", "e", "r">> -> Plain("Super")
          [] text = <<"f", "o", "r">> -> Plain("For")
          [] text = <<"w", "h", "i", "l", "e">> -> Plain("While")
          [] text = <<"p", "r", "i", "n", "t">> -> Plain("Print")
          [] text = <<"n", "i", "l">> -> Plain("Nil")]

----------------------------------------------------------------------------
(* Cursor helpers *)

is_at_end(cur) == cur >= Len(chars)

peek(cur) == IF is_at_end(cur) THEN NUL ELSE chars[cur + 1]

peek_next(cur) ==
    IF is_at_end(cur) THEN NUL
    ELSE IF cur + 1 >= Len(chars) THEN NUL
    ELSE chars[cur + 2]

\* matches() without self.current += 1
matches_no_advance(cur, expected) ==
    IF is_at_end(cur) THEN [current |-> cur, result |-> FALSE]
    ELSE IF chars[cur + 1] # expected THEN [current |-> cur, result |-> FALSE]
    ELSE [current |-> cur, result |-> TRUE]

\* matches(expected): the cursor after the call and the boolean it returns
matches(cur, expected) ==
    IF is_at_end(cur) THEN [current |-> cur, result |-> FALSE]
    ELSE IF chars[cur + 1] # expected THEN [current |-> cur, result |-> FALSE]
    ELSE [current |-> cur + 1, result |-> TRUE]

\* add_token() tagging with a 0-based line
add_token_zero_based(toks, token_type, ln) ==
    Append(toks, [token |-> token_type, line |-> ln - 1])

add_token(toks, token_type, ln) == Append(toks, [token |-> token_type, line |-> ln])

\* ErrorHandler::error: one diagnostic, with its line and its message
error(ds, ln, message) == Append(ds, [line |-> ln, message |-> message])

\* chars[i].0: the byte offset in `code` of the character at index i
RECURSIVE byte_offset(_)
byte_offset(i) == IF i = 0 THEN 0 ELSE byte_offset(i - 1) + len_utf8(chars[i])

\* &code[lo..hi]: the characters of `code` whose bytes lie in lo .. hi - 1
code_slice(lo, hi) ==
    LET inside == {k \in 1..Len(chars) :
                     lo <= byte_offset(k - 1) /\ byte_offset(k) <= hi}
    IN  IF inside = {} THEN <<>>
        ELSE SubSeq(chars,
                    CHOOSE k \in inside : \A m \in inside : k <= m,
                    CHOOSE k \in inside : \A m \in inside : m <= k)

\* current_text: &code[chars[start].0 .. chars[current].0]; indexing
\* chars[current] is out of range when current = chars.len()
current_text(st, cur) ==
    IF cur >= Len(chars) THEN [panic |-> TRUE, text |-> <<>>]
    ELSE [panic |-> FALSE,
          text |-> code_slice(byte_offset(st), byte_offset(cur))]

----------------------------------------------------------------------------
(* str::parse::<f64> on the texts number() can build.  The value of a      *)
(* decimal literal is kept exactly, as <<m, e>> standing for m / 10^e with *)
(* no trailing zero in the fraction, so that "1.50" and "1.5" parse to the *)
(* same value and "1.5" and "15" do not.                                   *)

DigitVal(c) == (CHOOSE i \in 1..10 : DigitSeq[i] = c) - 1

RECURSIVE Normalize(_, _)
Normalize(m, e) ==
    IF e > 0 /\ m % 10 = 0 THEN Normalize(m \div 10, e - 1) ELSE <<m, e>>

RECURSIVE DecimalValue(_, _, _, _)
DecimalValue(text, i, m, e) ==
    IF i > Len(text) THEN Normalize(m, e)
    ELSE IF text[i] = "." THEN DecimalValue(text, i + 1, m, 0)
    ELSE DecimalValue(text, i + 1, 10 * m + DigitVal(text[i]),
                      IF \E j \in 1..(i - 1) : text[j] = "." THEN e + 1 ELSE e)

ParseF64(text) ==
    LET dots == {i \in 1..Len(text) : text[i] = "."}
        digs == {i \in 1..Len(text) : text[i] \in Digits}
    IN  IF /\ digs # {}
           /\ Cardinality(dots) <= 1
           /\ dots \cup digs = 1..Len(text)
        THEN [ok |-> TRUE, val |-> DecimalValue(text, 1, 0, 0)]
        ELSE [ok |-> FALSE, val |-> <<>>]

----------------------------------------------------------------------------
(* The scanning loops *)

\* while self.peek() != '\n' { self.advance(); } : advance() indexes
\* chars[current], which is out of range at end of input
RECURSIVE comment(_)
comment(cur) ==
    IF peek(cur) = "\n" THEN [current |-> cur, panic |-> FALSE]
    ELSE IF cur >= Len(chars) THEN [current |-> cur, panic |-> TRUE]
    ELSE comment(cur + 1)

\* the loop of string() without line += 1
RECURSIVE string_loop_no_line_count(_, _)
string_loop_no_line_count(cur, ln) ==
    IF peek(cur) # "\"" /\ ~is_at_end(cur)
    THEN string_loop_no_line_count(cur + 1, ln)
    ELSE [current |-> cur, line |-> ln]

\* while self.peek() != '"' && !self.is_at_end() { if advance() == '\n' { line += 1 } }
RECURSIVE string_loop(_, _)
string_loop(cur, ln) ==
    IF peek(cur) # "\"" /\ ~is_at_end(cur)
    THEN string_loop(cur + 1, IF chars[cur + 1] = "\n" THEN ln + 1 ELSE ln)
    ELSE [current |-> cur, line |-> ln]

\* while self.peek().is_digit(10) { self.advance(); }
RECURSIVE digits_loop(_)
digits_loop(cur) == IF is_digit(peek(cur)) THEN digits_loop(cur + 1) ELSE cur

\* while self.peek().is_alphanumeric() { self.advance(); }
RECURSIVE alphanumeric_loop(_)
alphanumeric_loop(cur) ==
    IF is_alphanumeric(peek(cur)) THEN alphanumeric_loop(cur + 1) ELSE cur

----------------------------------------------------------------------------
(* The lexeme scanners.  Each is called with the cursor just after the     *)
(* first character of the lexeme and returns the cursor and line counter   *)
(* it leaves, the Option<Token> it returns, the diagnostics it reports and *)
(* whether it panicked.                                                    *)

\* string() with the unfinished literal emitted at end of input
string_emits_unterminated(st, cur, ln) ==
    LET e == string_loop(cur, ln)
    IN  IF is_at_end(e.current)
        THEN [current |-> e.current, line |-> e.line,
              token |-> Some(StringValue(SubSeq(chars, st + 1, e.current))),
              errors |-> error(<<>>, e.line, <<"Unterminated string.">>),
              panic |-> FALSE]
        ELSE LET t == current_text(st, e.current)
             IN  [current |-> e.current, line |-> e.line,
                  token |-> IF t.panic THEN None ELSE Some(StringValue(t.text)),
                  errors |-> <<>>, panic |-> t.panic]

\* string() reporting at the line it was entered on
string_reports_entry_line(st, cur, ln) ==
    LET e == string_loop(cur, ln)
    IN  IF is_at_end(e.current)
        THEN [current |-> e.current, line |-> e.line, token |-> None,
              errors |-> error(<<>>, ln, <<"Unterminated string.">>),
              panic |-> FALSE]
        ELSE LET t == current_text(st, e.current)
             IN  [current |-> e.current, line |-> e.line,
                  token |-> IF t.panic THEN None ELSE Some(StringValue(t.text)),
                  errors |-> <<>>, panic |-> t.panic]

string(st, cur, ln) ==
    LET e == string_loop(cur, ln)
    IN  IF is_at_end(e.current)
        THEN [current |-> e.current, line |-> e.line, token |-> None,
              errors |-> error(<<>>, e.line, <<"Unterminated string.">>),
              panic |-> FALSE]
        ELSE LET t == current_text(st, e.current)
             IN  [current |-> e.current, line |-> e.line,
                  token |-> IF t.panic THEN None ELSE Some(StringValue(t.text)),
                  errors |-> <<>>, panic |-> t.panic]

\* number() without the peek_next() test
number_no_lookahead(st, cur, ln) ==
    LET c1 == digits_loop(cur)
        c2 == IF peek(c1) = "." THEN digits_loop(c1 + 1) ELSE c1
        t  == current_text(st, c2)
        v  == ParseF64(t.text)
    IN  IF t.panic
        THEN [current |-> c2, line |-> ln, token |-> None, errors |-> <<>>,
              panic |-> TRUE]
        ELSE IF v.ok
        THEN [current |-> c2, line |-> ln, token |-> Some(NumberValue(v.val)),
              errors |-> <<>>, panic |-> FALSE]
        ELSE [current |-> c2, line |-> ln, token |-> None,
              errors |-> error(<<>>, ln, <<"invalid float literal">>),
              panic |-> FALSE]

number(st, cur, ln) ==
    LET c1 == digits_loop(cur)
        c2 == IF peek(c1) = "." /\ is_digit(peek_next(c1))
              THEN digits_loop(c1 + 1) ELSE c1
        t  == current_text(st, c2)
        v  == ParseF64(t.text)
    IN  IF t.panic
        THEN [current |-> c2, line |-> ln, token |-> None, errors |-> <<>>,
              panic |-> TRUE]
        ELSE IF v.ok
        THEN [current |-> c2, line |-> ln, token |-> Some(NumberValue(v.val)),
              errors |-> <<>>, panic |-> FALSE]
        ELSE [current |-> c2, line |-> ln, token |-> None,
              errors |-> error(<<>>, ln, <<"invalid float literal">>),
              panic |-> FALSE]

\* identifier() with a reserved word matched as a prefix of the text,
\* whatever the case of the letters
identifier_loose_lookup(st, cur, ln) ==
    LET c1 == alphanumeric_loop(cur)
        t  == current_text(st, c1)
        lower(c) == IF c \in UpperCase
                    THEN CHOOSE l \in LowerCase :
                           \E i \in 1..26 :
                             /\ <<"A", "B", "C", "D", "E", "F", "G", "H", "I", "J",
                                  "K", "L", "M", "N", "O", "P", "Q", "R", "S", "T",
                                  "U", "V", "W", "X", "Y", "Z">>[i] = c
                             /\ <<"a", "b", "c", "d", "e", "f", "g", "h", "i", "j",
                                  "k", "l", "m", "n", "o", "p", "q", "r", "s", "t",
                                  "u", "v", "w", "x", "y", "z">>[i] = l
                    ELSE c
        folded == [i \in 1..Len(t.text) |-> lower(t.text[i])]
        hits == {w \in DOMAIN reserved_words :
                   Len(w) <= Len(folded) /\ SubSeq(folded, 1, Len(w)) = w}
    IN  IF t.panic
        THEN [current |-> c1, line |-> ln, token |-> None, errors |-> <<>>,
              panic |-> TRUE]
        ELSE [current |-> c1, line |-> ln,
              token |-> IF hits # {}
                        THEN Some(reserved_words[CHOOSE w \in hits : TRUE])
                        ELSE Some(Identifier(t.text)),
              errors |-> <<>>, panic |-> FALSE]

identifier(st, cur, ln) ==
    LET c1 == alphanumeric_loop(cur)
        t  == current_text(st, c1)
    IN  IF t.panic
        THEN [current |-> c1, line |-> ln, token |-> None, errors |-> <<>>,
              panic |-> TRUE]
        ELSE [current |-> c1, line |-> ln,
              token |-> IF t.text \in DOMAIN reserved_words
                        THEN Some(reserved_words[t.text])
                        ELSE Some(Identifier(t.text)),
              errors |-> <<>>, panic |-> FALSE]

\* the last arm without self.had_errors = true
unexpected_flag_not_set(c, ln) ==
    [had_errors |-> had_errors,
     errors |-> error(<<>>, ln, <<"Unexpected character ", c>>),
     token |-> None]

\* the last arm of the match: a character no rule matches
unexpected(c, ln) ==
    [had_errors |-> TRUE,
     errors |-> error(<<>>, ln, <<"Unexpected character ", c>>),
     token |-> None]

\* match token { Some(t) => self.add_token(t), None => {} }
push(toks, token, ln) ==
    IF token = None THEN toks ELSE add_token(toks, token[1], ln)

----------------------------------------------------------------------------
(* Scanner::new *)

Init ==
    /\ chars \in Inputs
    /\ had_errors = FALSE
    /\ line = 1
    /\ start = 0
    /\ current = 0
    /\ tokens = <<>>
    /\ diags = <<>>
    /\ pc = "scanning"
    /\ iterations = 0
    /\ buffer = <<>>
    /\ read = <<>>

\* the loop of scan_tokens is entered: a lexeme starts at `current`
InLoop == pc = "scanning" /\ ~is_at_end(current)

\* let c = self.advance()
c0 == chars[current + 1]

\* a lexeme scanner run with self.start = self.current after it
Finish_start_after(r) ==
    /\ start' = r.current
    /\ current' = r.current
    /\ line' = r.line
    /\ diags' = diags \o r.errors
    /\ tokens' = IF r.panic THEN tokens ELSE push(tokens, r.token, r.line)
    /\ pc' = IF r.panic THEN "panicked" ELSE "scanning"
    /\ iterations' = iterations + 1
    /\ UNCHANGED <<buffer, read, chars, had_errors>>

\* what a lexeme scanner leaves in the scanner
Finish(r) ==
    /\ start' = current
    /\ current' = r.current
    /\ line' = r.line
    /\ diags' = diags \o r.errors
    /\ tokens' = IF r.panic THEN tokens ELSE push(tokens, r.token, r.line)
    /\ pc' = IF r.panic THEN "panicked" ELSE "scanning"
    /\ iterations' = iterations + 1
    /\ UNCHANGED <<buffer, read, chars, had_errors>>

ScanSingleChar ==
    /\ InLoop
    /\ c0 \in DOMAIN SingleCharTokens
    /\ start' = current
    /\ current' = current + 1
    /\ tokens' = add_token(tokens, SingleCharTokens[c0], line)
    /\ iterations' = iterations + 1
    /\ UNCHANGED <<buffer, read, chars, had_errors, line, diags, pc>>

ScanOneOrTwoChar ==
    /\ InLoop
    /\ c0 \in DOMAIN OneCharTokens
    /\ LET m == matches(current + 1, "=")
       IN  /\ start' = current
           /\ current' = m.current
           /\ tokens' = add_token(tokens,
                                  IF m.result THEN TwoCharTokens[c0]
                                  ELSE OneCharTokens[c0], line)
    /\ iterations' = iterations + 1
    /\ UNCHANGED <<buffer, read, chars, had_errors, line, diags, pc>>

ScanSlash ==
    /\ InLoop
    /\ c0 = "/"
    /\ LET m == matches(current + 1, "/")
       IN  IF m.result
           THEN LET r == comment(m.current)
                IN  /\ start' = current
                    /\ current' = r.current
                    /\ pc' = IF r.panic THEN "panicked" ELSE "scanning"
                    /\ UNCHANGED tokens
           ELSE /\ start' = current
                /\ current' = m.current
                /\ tokens' = add_token(tokens, Plain("Slash"), line)
                /\ UNCHANGED pc
    /\ iterations' = iterations + 1
    /\ UNCHANGED <<buffer, read, chars, had_errors, line, diags>>

\* the whitespace arm with the character looked at and not consumed
ScanWhitespace_no_advance ==
    /\ InLoop
    /\ c0 \in Whitespace
    /\ start' = current
    /\ current' = current
    /\ iterations' = iterations + 1
    /\ UNCHANGED <<buffer, read, chars, had_errors, line, tokens, diags, pc>>

ScanWhitespace ==
    /\ InLoop
    /\ c0 \in Whitespace
    /\ start' = current
    /\ current' = current + 1
    /\ iterations' = iterations + 1
    /\ UNCHANGED <<buffer, read, chars, had_errors, line, tokens, diags, pc>>

ScanNewline ==
    /\ InLoop
    /\ c0 = "\n"
    /\ start' = current
    /\ current' = current + 1
    /\ line' = line + 1
    /\ iterations' = iterations + 1
    /\ UNCHANGED <<buffer, read, chars, had_errors, tokens, diags, pc>>

ScanString ==
    /\ InLoop
    /\ c0 = "\""
    /\ Finish(string(current, current + 1, line))

NoEarlierArm(c) ==
    /\ c \notin DOMAIN SingleCharTokens
    /\ c \notin DOMAIN OneCharTokens
    /\ c \notin Whitespace
    /\ c \notin {"/", "\n", "\""}

ScanNumber ==
    /\ InLoop
    /\ NoEarlierArm(c0)
    /\ is_digit(c0)
    /\ Finish(number(current, current + 1, line))

ScanIdentifier ==
    /\ InLoop
    /\ NoEarlierArm(c0)
    /\ ~is_digit(c0)
    /\ is_alphabetic(c0)
    /\ Finish(identifier(current, current + 1, line))

ScanUnexpected ==
    /\ InLoop
    /\ NoEarlierArm(c0)
    /\ ~is_digit(c0)
    /\ ~is_alphabetic(c0)
    /\ LET r == unexpected(c0, line)
       IN  /\ start' = current
           /\ current' = current + 1
           /\ had_errors' = r.had_errors
           /\ diags' = diags \o r.errors
           /\ tokens' = push(tokens, r.token, line)
    /\ iterations' = iterations + 1
    /\ UNCHANGED <<buffer, read, chars, line, pc>>

\* scan_tokens returning without the EOF token
ScanTokensReturn_no_eof ==
    /\ pc = "scanning"
    /\ is_at_end(current)
    /\ pc' = "done"
    /\ UNCHANGED <<buffer, read, chars, had_errors, line, start, current, tokens,
                   diags, iterations>>

\* the loop of scan_tokens is left: self.add_token(Token::EOF); &self.tokens
ScanTokensReturn ==
    /\ pc = "scanning"
    /\ is_at_end(current)
    /\ tokens' = add_token(tokens, EOF, line)
    /\ pc' = "done"
    /\ UNCHANGED <<buffer, read, chars, had_errors, line, start, current, diags,
                   iterations>>

Next ==
    \/ ScanSingleChar
    \/ ScanOneOrTwoChar
    \/ ScanSlash
    \/ ScanWhitespace
    \/ ScanNewline
    \/ ScanString
    \/ ScanNumber
    \/ ScanIdentifier
    \/ ScanUnexpected
    \/ ScanTokensReturn

Spec == Init /\ [][Next]_vars

----------------------------------------------------------------------------
(* run_prompt (src/src/main.rs): the interactive loop.  One String is      *)
(* created before the loop; each iteration hands it to read_line, which    *)
(* appends the line it reads to it, and then runs a new Scanner over the   *)
(* whole String and prints its tokens.  pc = "prompt" is the loop waiting  *)
(* for its first line; `diags` holds the diagnostics of the current scan.  *)

\* number of lines the buffer holds
lines_read(buf) == Cardinality({i \in 1..Len(buf) : buf[i] = "\n"})

PromptInit ==
    /\ buffer = <<>>
    /\ read = <<>>
    /\ chars = <<>>
    /\ had_errors = FALSE
    /\ line = 1
    /\ start = 0
    /\ current = 0
    /\ tokens = <<>>
    /\ diags = <<>>
    /\ iterations = 0
    /\ pc = "prompt"

\* input.read_line(&mut line); run(&line) up to Scanner::new
PromptReadLine ==
    /\ pc \in {"prompt", "done"}
    /\ lines_read(buffer) < MaxPromptLines
    /\ \E l \in PromptLines :
         /\ read' = l
         /\ buffer' = buffer \o l
         /\ chars' = buffer \o l
    /\ had_errors' = FALSE
    /\ line' = 1
    /\ start' = 0
    /\ current' = 0
    /\ tokens' = <<>>
    /\ diags' = <<>>
    /\ iterations' = 0
    /\ pc' = "scanning"

PromptNext ==
    \/ PromptReadLine
    \/ Next

PromptSpec == PromptInit /\ [][PromptNext]_vars

----------------------------------------------------------------------------
(* Vocabulary of the properties *)

\* 0-based indices of the quote characters after index i
QuotesAfter(i) == {j \in (i + 1)..(Len(chars) - 1) : chars[j + 1] = "\""}

\* 0-based index of the first quote character after index i
ClosingQuote(i) == CHOOSE j \in QuotesAfter(i) : \A k \in QuotesAfter(i) : j <= k

\* number of newline characters among the first n characters
NewlinesIn(n) == Cardinality({j \in 1..n : chars[j] = "\n"})

\* 0-based index of the first newline at or after index i, else the length
LineEnd(i) ==
    LET nl == {j \in i..(Len(chars) - 1) : chars[j + 1] = "\n"}
    IN  IF nl = {} THEN Len(chars) ELSE CHOOSE j \in nl : \A k \in nl : j <= k

\* the letters, of ASCII and beyond
Letters == LowerCase \cup UpperCase \cup {"é", "ª", "µ", "λ"}

\* the letters and the numbers, of ASCII and beyond
LettersAndNumbers == Letters \cup Digits \cup {"²", "½"}

\* a lexeme starts at `current` with a character no rule matches
AtUnmatched ==
    /\ pc = "scanning"
    /\ current < Len(chars)
    /\ chars[current + 1] \notin
         {"(", ")", "{", "}", ",", ".", "-", "+", ";", "*", "!", "=", "<", ">",
          "/", " ", "\r", "\t", "\n", "\""} \cup Digits \cup Letters

\* a lexeme starts at `current` with a quote
AtQuote == pc = "scanning" /\ current < Len(chars) /\ chars[current + 1] = "\""

\* a lexeme starts at `current` with the two characters //
AtComment ==
    /\ pc = "scanning"
    /\ current + 1 < Len(chars)
    /\ chars[current + 1] = "/"
    /\ chars[current + 2] = "/"

IsPrefix(s, t) == Len(s) <= Len(t) /\ SubSeq(t, 1, Len(s)) = s

----------------------------------------------------------------------------
(* C1: a call to scan_tokens runs to completion on every source text: it   *)
(* never aborts on an out-of-range access to the character list.           *)
C1_RunsToCompletion == pc # "panicked"

(* C2: when scan_tokens returns, the returned sequence holds exactly one   *)
(* EOF token, and that token is its last element.                          *)
C2_OneEOFLast ==
    pc = "done" =>
        /\ tokens # <<>>
        /\ tokens[Len(tokens)].token = EOF
        /\ \A i \in 1..(Len(tokens) - 1) : tokens[i].token # EOF

C2_Witness ==
    /\ pc = "done"
    /\ Len(tokens) >= 3
    /\ tokens[Len(tokens)].token.type = "EOF"

(* C3: when string scanning finds a closing quote, the payload of the      *)
(* emitted StringValue token is the text strictly between the two quotes.  *)
C3_PayloadBetweenQuotes ==
    [][ (AtQuote /\ QuotesAfter(current) # {}) =>
            /\ Len(tokens') = Len(tokens) + 1
            /\ tokens'[Len(tokens')].token =
                 StringValue(SubSeq(chars, current + 2, ClosingQuote(current)))
      ]_vars

(* C4: a string literal with its opening and closing quote yields one      *)
(* string token and no diagnostic, and the closing quote is consumed: the  *)
(* next lexeme starts right after it.                                      *)
C4_ClosingQuoteConsumed ==
    [][ (AtQuote /\ QuotesAfter(current) # {}) =>
            /\ Len(tokens') = Len(tokens) + 1
            /\ tokens'[Len(tokens')].token.type = "StringValue"
            /\ diags' = diags
            /\ current' = ClosingQuote(current) + 1
      ]_vars

(* C5: an input that is one alphanumeric run starting with a letter and    *)
(* is no reserved word scans to one Identifier token carrying the whole    *)
(* run, followed by EOF.                                                   *)
C5_MaximalMunch ==
    ( /\ chars # <<>>
      /\ is_alphabetic(chars[1])
      /\ \A i \in 1..Len(chars) : is_alphanumeric(chars[i])
      /\ chars \notin DOMAIN reserved_words
      /\ current > 0 ) =>
        /\ pc # "panicked"
        /\ pc = "done" =>
             tokens = << [token |-> Identifier(chars), line |-> 1],
                         [token |-> EOF, line |-> 1] >>

(* C6: after // the scanner consumes up to, not including, the next        *)
(* newline, or up to end of input; it emits no token, reports nothing and  *)
(* leaves the line counter alone.                                          *)
C6_CommentConsumed ==
    [][ AtComment =>
            /\ pc' = "scanning"
            /\ current' = LineEnd(current + 2)
            /\ tokens' = tokens
            /\ diags' = diags
            /\ line' = line
      ]_vars

(* C7: after scan_tokens returns, had_errors is true exactly when at least *)
(* one diagnostic was reported during the scan.                            *)
C7_FlagIffDiagnostic == pc = "done" => (had_errors <=> diags # <<>>)

(* C8: when input ends inside a string literal, the lexeme adds no token,  *)
(* exactly one "Unterminated string." diagnostic is reported, and the      *)
(* scan goes on to append the EOF token as the last element.               *)
C8_UnterminatedString ==
    [][ /\ (AtQuote /\ QuotesAfter(current) = {}) =>
              /\ tokens' = tokens
              /\ Len(diags') = Len(diags) + 1
              /\ IsPrefix(diags, diags')
              /\ diags'[Len(diags')].message = <<"Unterminated string.">>
              /\ pc' = "scanning"
              /\ current' = Len(chars)
        /\ (pc = "scanning" /\ current >= Len(chars)) =>
              /\ pc' = "done"
              /\ tokens' = Append(tokens, [token |-> EOF, line |-> line])
      ]_vars

C8_Witness ==
    /\ pc = "done"
    /\ start < Len(chars)
    /\ chars[start + 1] = "\""
    /\ QuotesAfter(start) = {}
    /\ start + 1 < Len(chars)
    /\ Len(tokens) >= 2
    /\ Len(diags) = 1
    /\ diags[1].message = <<"Unterminated string.">>

(* C9 as stated: every error is reported by exactly one diagnostic, whose  *)
(* line is the line on which the erroneous lexeme began.                   *)
C9_LineWhereLexemeBegan ==
    [][ diags' # diags =>
            /\ Len(diags') = Len(diags) + 1
            /\ IsPrefix(diags, diags')
            /\ diags'[Len(diags')].line = line
      ]_vars

(* C9 amended: every error is reported by exactly one diagnostic, whose    *)
(* line is the value of the line counter when the error is detected, that  *)
(* is 1 plus the number of newlines consumed so far; for an unterminated   *)
(* string this is the line on which the input ends.                        *)
C9_LineWhenDetected ==
    [][ diags' # diags =>
            /\ Len(diags') = Len(diags) + 1
            /\ IsPrefix(diags, diags')
            /\ diags'[Len(diags')].line = line'
            /\ diags'[Len(diags')].line = 1 + NewlinesIn(current')
      ]_vars

C9_Witness ==
    /\ pc = "done"
    /\ start < Len(chars)
    /\ chars[start + 1] = "\""
    /\ QuotesAfter(start) = {}
    /\ diags # <<>>
    /\ diags[Len(diags)].message = <<"Unterminated string.">>
    /\ diags[Len(diags)].line > 1 + NewlinesIn(start)

(* C10: a character matched by no rule sets had_errors, is reported by one *)
(* "Unexpected character <c>" diagnostic at the current line, is the only  *)
(* character consumed, leaves the tokens and the line counter unchanged,   *)
(* and the scan goes on: no step ever drops a token already recognized.    *)
C10_UnexpectedCharacter ==
    [][ /\ AtUnmatched =>
              /\ had_errors'
              /\ diags' = Append(diags,
                                 [line |-> line,
                                  message |-> <<"Unexpected character ",
                                                chars[current + 1]>>])
              /\ current' = current + 1
              /\ tokens' = tokens
              /\ line' = line
              /\ pc' = "scanning"
        /\ IsPrefix(tokens, tokens')
      ]_vars

C10_Witness ==
    /\ pc = "done"
    /\ had_errors
    /\ Len(chars) = 3
    /\ chars[2] = "@"
    /\ Len(diags) = 1
    /\ diags[1].message = <<"Unexpected character ", "@">>
    /\ Len(tokens) = 3

----------------------------------------------------------------------------
(* C11: for !, =, < and >, a following = is consumed with it and the       *)
(* two-character token is emitted; otherwise, also at end of input, only   *)
(* the one character is consumed and the one-character token is emitted.   *)
C11_TwoCharOperators ==
    [][ ( /\ pc = "scanning"
          /\ current < Len(chars)
          /\ chars[current + 1] \in {"!", "=", "<", ">"} ) =>
            LET c == chars[current + 1]
                followed == current + 1 < Len(chars) /\ chars[current + 2] = "="
                one == CASE c = "!" -> "Bang" [] c = "=" -> "Equal"
                         [] c = "<" -> "Less" [] c = ">" -> "Greater"
                two == CASE c = "!" -> "BangEqual" [] c = "=" -> "EqualEqual"
                         [] c = "<" -> "LessEqual" [] c = ">" -> "GreaterEqual"
            IN  /\ pc' = "scanning"
                /\ current' = IF followed THEN current + 2 ELSE current + 1
                /\ tokens' = Append(tokens,
                                    [token |-> [type |-> IF followed THEN two ELSE one,
                                                payload |-> <<>>],
                                     line |-> line])
      ]_vars

C11_Witness ==
    /\ pc = "done"
    /\ chars = <<"!", "=">>
    /\ tokens = << [token |-> [type |-> "BangEqual", payload |-> <<>>], line |-> 1],
                   [token |-> [type |-> "EOF", payload |-> <<>>], line |-> 1] >>

\* 0-based index of the first character at or after index i that is no digit
DigitRunEnd(i) ==
    LET ends == {j \in i..Len(chars) : j = Len(chars) \/ chars[j + 1] \notin Digits}
    IN  CHOOSE j \in ends : \A k \in ends : j <= k

\* the number written by the digits at the 0-based indices i .. j - 1
RECURSIVE DigitsValue(_, _)
DigitsValue(i, j) ==
    IF j <= i THEN 0 ELSE 10 * DigitsValue(i, j - 1) + DigitVal(chars[j])

\* a lexeme starts at `current` with a digit run followed by a dot that no
\* digit follows
AtDigitsDot ==
    /\ pc = "scanning"
    /\ current < Len(chars)
    /\ chars[current + 1] \in Digits
    /\ LET j == DigitRunEnd(current)
       IN  /\ j < Len(chars)
           /\ chars[j + 1] = "."
           /\ (j + 1 >= Len(chars) \/ chars[j + 2] \notin Digits)

(* C12: a digit run followed by a dot that no digit follows yields the     *)
(* Number token of the digit run alone; the dot is left for the next       *)
(* lexeme, which yields a Dot token.                                       *)
C12_TrailingDot ==
    [][ /\ AtDigitsDot =>
              /\ pc' = "scanning"
              /\ current' = DigitRunEnd(current)
              /\ tokens' = Append(tokens,
                                  [token |-> [type |-> "NumberValue",
                                              payload |-> <<DigitsValue(current,
                                                              DigitRunEnd(current)), 0>>],
                                   line |-> line])
        /\ (pc = "scanning" /\ current < Len(chars) /\ chars[current + 1] = ".") =>
              /\ pc' = "scanning"
              /\ current' = current + 1
              /\ tokens' = Append(tokens,
                                  [token |-> [type |-> "Dot", payload |-> <<>>],
                                   line |-> line])
      ]_vars

C12_Witness ==
    /\ pc = "done"
    /\ chars = <<"3", ".">>
    /\ tokens = << [token |-> [type |-> "NumberValue", payload |-> <<3, 0>>], line |-> 1],
                   [token |-> [type |-> "Dot", payload |-> <<>>], line |-> 1],
                   [token |-> [type |-> "EOF", payload |-> <<>>], line |-> 1] >>

----------------------------------------------------------------------------
(* C13: an input made only of spaces, tabs, carriage returns and newlines, *)
(* the empty input included, scans to the single token EOF and reports no  *)
(* diagnostic.                                                             *)
C13_WhitespaceOnly ==
    (\A i \in 1..Len(chars) : chars[i] \in {" ", "\t", "\r", "\n"}) =>
        /\ pc # "panicked"
        /\ diags = <<>>
        /\ pc = "scanning" => tokens = <<>>
        /\ pc = "done" => (Len(tokens) = 1 /\ tokens[1].token.type = "EOF")

C13_Witness ==
    /\ pc = "done"
    /\ Len(chars) >= 3
    /\ \A i \in 1..Len(chars) : chars[i] \in {" ", "\t", "\r", "\n"}
    /\ \E i \in 1..Len(chars) : chars[i] = "\n"
    /\ \E i \in 1..Len(chars) : chars[i] = " "
    /\ Len(tokens) = 1

(* C14: each time the main loop tests for end of input the line counter is *)
(* 1 plus the number of newlines consumed so far, and the line of the EOF  *)
(* token is 1 plus the number of newlines of the whole input.              *)
C14_LineCountsNewlines ==
    /\ pc = "scanning" => line = 1 + NewlinesIn(current)
    /\ pc = "done" =>
         /\ tokens # <<>>
         /\ tokens[Len(tokens)].line = 1 + NewlinesIn(Len(chars))

C14_Witness ==
    /\ pc = "done"
    /\ tokens[Len(tokens)].line >= 2
    /\ \E i \in 1..Len(tokens) :
         /\ tokens[i].token.type = "StringValue"
         /\ \E k \in 1..Len(tokens[i].token.payload) :
              tokens[i].token.payload[k] = "\n"

\* the spelling of each keyword token
KeywordSpelling ==
    [k \in {"And", "Class", "Else", "False", "Fun", "For", "If", "Nil", "Or",
            "Print", "Return", "Super", "This", "True", "Var", "While"} |->
        CASE k = "And" -> <<"a", "n", "d">>
          [] k = "Class" -> <<"c", "l", "a", "s", "s">>
          [] k = "Else" -> <<"e", "l", "s", "e">>
          [] k = "False" -> <<"f", "a", "l", "s", "e">>
          [] k = "Fun" -> <<"f", "u", "n">>
          [] k = "For" -> <<"f", "o", "r">>
          [] k = "If" -> <<"i", "f">>
          [] k = "Nil" -> <<"n", "i", "l">>
          [] k = "Or" -> <<"o", "r">>
          [] k = "Print" -> <<"p", "r", "i", "n", "t">>
          [] k = "Return" -> <<"r", "e", "t", "u", "r", "n">>
          [] k = "Super" -> <<"s", "u", "p", "e", "r">>
          [] k = "This" -> <<"t", "h", "i", "s">>
          [] k = "True" -> <<"t", "r", "u", "e">>
          [] k = "Var" -> <<"v", "a", "r">>
          [] k = "While" -> <<"w", "h", "i", "l", "e">>]

\* 0-based index of the first character at or after index i that is neither
\* a letter nor a digit
AlnumRunEnd(i) ==
    LET ends == {j \in i..Len(chars) :
                   j = Len(chars) \/
                   chars[j + 1] \notin LettersAndNumbers}
    IN  CHOOSE j \in ends : \A k \in ends : j <= k

(* C15: a token emitted for an identifier-shaped lexeme is the keyword     *)
(* token K exactly when the lexeme text is, character for character, one   *)
(* of the 16 keyword spellings, the one of K; otherwise it is Identifier   *)
(* carrying the lexeme text verbatim.                                      *)
C15_ExactKeywordMatch ==
    [][ ( /\ pc = "scanning"
          /\ current < Len(chars)
          /\ chars[current + 1] \in Letters
          /\ tokens' # tokens ) =>
            LET text == SubSeq(chars, current + 1, AlnumRunEnd(current))
                t == tokens'[Len(tokens')]
                keys == {k \in DOMAIN KeywordSpelling : KeywordSpelling[k] = text}
            IN  /\ Cardinality(DOMAIN KeywordSpelling) = 16
                /\ Len(tokens') = Len(tokens) + 1
                /\ IsPrefix(tokens, tokens')
                /\ current' = AlnumRunEnd(current)
                /\ t.line = line
                /\ IF keys # {}
                   THEN t.token.type \in keys /\ t.token.payload = <<>>
                   ELSE t.token.type = "Identifier" /\ t.token.payload = text
      ]_vars

C15_Witness ==
    /\ pc = "done"
    /\ \E i \in 1..Len(tokens) : tokens[i].token.type = "Var"
    /\ \E i \in 1..Len(tokens) :
         /\ tokens[i].token.type = "Identifier"
         /\ tokens[i].token.payload = <<"x", "2">>

(* C16: in every reachable state start <= current; start is the index of   *)
(* the first character of the lexeme being scanned, so it is below current *)
(* once a character is consumed, and current, the index of the next        *)
(* unconsumed character, is at most the number of characters.              *)
C16_StartNotAfterCurrent ==
    /\ 0 <= start
    /\ start <= current
    /\ current <= Len(chars)
    /\ current > 0 => start < current

C16_Witness ==
    /\ pc = "scanning"
    /\ start > 0
    /\ current >= start + 2
    /\ current < Len(chars)

(* C18: the line tags of the tokens never decrease from one token to the   *)
(* next, the first is at least 1, and the line of the EOF token is the     *)
(* largest.                                                                *)
C18_LinesNonDecreasing ==
    /\ \A i \in 1..Len(tokens) : tokens[i].line >= 1
    /\ \A i \in 1..(Len(tokens) - 1) : tokens[i].line <= tokens[i + 1].line
    /\ pc = "done" =>
         /\ tokens[Len(tokens)].token.type = "EOF"
         /\ \A i \in 1..Len(tokens) : tokens[i].line <= tokens[Len(tokens)].line

C18_Witness ==
    /\ pc = "done"
    /\ Len(tokens) >= 3
    /\ tokens[1].line < tokens[2].line
    /\ tokens[2].line < tokens[Len(tokens)].line

----------------------------------------------------------------------------
(* C17: in the prompt loop the text handed to the scanner is exactly the   *)
(* line read in that iteration; lines of earlier iterations are not        *)
(* scanned again.                                                          *)
C17_ScansOnlyTheLineRead ==
    pc \in {"scanning", "done", "panicked"} => chars = read

(* C19: an iteration of the main loop that completes increases current by  *)
(* at least one and never moves it past the number of characters, so the   *)
(* number of iterations never exceeds the number of characters.            *)
C19_LoopProgress ==
    [][ (pc = "scanning" /\ current < Len(chars) /\ pc' = "scanning") =>
            /\ current' >= current + 1
            /\ current' <= Len(chars)
            /\ iterations' = iterations + 1
            /\ iterations' <= current'
            /\ iterations' <= Len(chars)
      ]_vars

C19_Witness ==
    /\ pc = "done"
    /\ Len(chars) = MaxLen
    /\ iterations >= 2
    /\ iterations < Len(chars)
    /\ current = Len(chars)

====
